---------------------------- MODULE Spec2Model ----------------------------
(***************************************************************************)
(* Model of backend/app.py of the Fynd AI feedback system: the request     *)
(* validation, the feedback generator (remote call, response parser,       *)
(* rating fallback), the review table and the two review endpoints.        *)
(*                                                                         *)
(* Text produced by the language model is a sequence of tokens (a fence    *)
(* marker, a newline, a blank, JSON punctuation, JSON literals); the       *)
(* parser works on that sequence the way the code works on characters.     *)
(* A review text is a sequence of runs [ch, n] (n copies of ch), so that a *)
(* text longer than MAX_REVIEW_LENGTH is a small value.                    *)
(***************************************************************************)
EXTENDS Integers, Sequences, FiniteSets, TLC

VARIABLES
    env,        \* the process environment read by Config
    app,        \* "running", or "config_error" when LLMService.__init__ raised
    reviews,    \* the reviews table, in insertion order
    inflight,   \* submit_review handlers suspended at `await client.post`
    finished,   \* the responses of the accepted submissions handled so far
    rejected,   \* the last request refused by validation, or NoRequest
    outbound,   \* outbound model-call attempts made so far
    now,        \* the last reading of the wall clock
    lastQuery,  \* the last /get-reviews exchange
    genIn,      \* one call of generate_feedback: provider, rating, outcome
    genOut      \* its result

vars == <<env, app, reviews, inflight, finished, rejected, outbound, now,
          lastQuery, genIn, genOut>>

sysVars == <<env, app, reviews, inflight, finished, rejected, outbound, now,
             lastQuery>>

genVars == <<genIn, genOut>>

None == "None"

-----------------------------------------------------------------------------
(* Python values decoded from JSON.  Every value has the same shape:       *)
(* k is the Python type, s the text of a str or a number, items the        *)
(* members of a dict (key, val) or of a list (key "", val).                *)

Str(s) == [k |-> "str", s |-> s, items |-> <<>>]

Num(s) == [k |-> "int", s |-> s, items |-> <<>>]

PyNone == [k |-> "NoneType", s |-> "", items |-> <<>>]

PyList(ms) == [k |-> "list", s |-> "", items |-> ms]

PyDict(ms) == [k |-> "dict", s |-> "", items |-> ms]

Member(key, val) == [key |-> key, val |-> val]

-----------------------------------------------------------------------------
(* Tokens of a model text. *)

\* the fence marker: three backquotes
FENCE == "FENCE"

NL == "\n"

SP == " "

Whitespace == {SP, NL}

\* The string literals of the model texts, with the str each one decodes to.
StrLit ==
    [tok \in {"\"user_response\"", "\"admin_summary\"", "\"recommended_action\"",
              "\"Thanks!\"", "\"Happy customer\"", "\"Call back\"", "\"\""} |->
        CASE tok = "\"user_response\"" -> "user_response"
          [] tok = "\"admin_summary\"" -> "admin_summary"
          [] tok = "\"recommended_action\"" -> "recommended_action"
          [] tok = "\"Thanks!\"" -> "Thanks!"
          [] tok = "\"Happy customer\"" -> "Happy customer"
          [] tok = "\"Call back\"" -> "Call back"
          [] tok = "\"\"" -> ""]

NumLit == {"7"}

-----------------------------------------------------------------------------
(* str methods used by _parse, on token sequences. *)

RECURSIVE lstrip(_)
lstrip(t) ==
    IF t # <<>> /\ Head(t) \in Whitespace THEN lstrip(Tail(t)) ELSE t

RECURSIVE rstrip(_)
rstrip(t) ==
    IF t # <<>> /\ t[Len(t)] \in Whitespace
    THEN rstrip(SubSeq(t, 1, Len(t) - 1))
    ELSE t

strip(t) == rstrip(lstrip(t))

startswith(t, tok) == t # <<>> /\ Head(t) = tok

\* t.split(sep): the pieces between the separators, at least one piece.
RECURSIVE split(_, _)
split(t, sep) ==
    IF \A i \in 1..Len(t) : t[i] # sep
    THEN <<t>>
    ELSE LET i == CHOOSE j \in 1..Len(t) :
                      t[j] = sep /\ \A h \in 1..(j - 1) : t[h] # sep
         IN  <<SubSeq(t, 1, i - 1)>> \o split(SubSeq(t, i + 1, Len(t)), sep)

\* sep.join(pieces)
RECURSIVE join(_, _)
join(pieces, sep) ==
    IF pieces = <<>> THEN <<>>
    ELSE IF Len(pieces) = 1 THEN pieces[1]
    ELSE pieces[1] \o <<sep>> \o join(Tail(pieces), sep)

-----------------------------------------------------------------------------
(* json.loads: a recursive-descent decoder.  Each step returns             *)
(* [ok, val, rest]; ok = FALSE is json.JSONDecodeError.                    *)

DecodeError == [ok |-> FALSE, val |-> PyNone, rest |-> <<>>]

Decoded(v, rest) == [ok |-> TRUE, val |-> v, rest |-> rest]

RECURSIVE scan_value(_)
RECURSIVE scan_members(_, _)
RECURSIVE scan_elements(_, _)

scan_value(t0) ==
    LET t == lstrip(t0) IN
    IF t = <<>> THEN DecodeError
    ELSE IF Head(t) \in DOMAIN StrLit THEN Decoded(Str(StrLit[Head(t)]), Tail(t))
    ELSE IF Head(t) \in NumLit THEN Decoded(Num(Head(t)), Tail(t))
    ELSE IF Head(t) = "null" THEN Decoded(PyNone, Tail(t))
    ELSE IF Head(t) = "{" THEN
        LET u == lstrip(Tail(t)) IN
        IF u # <<>> /\ Head(u) = "}" THEN Decoded(PyDict(<<>>), Tail(u))
        ELSE scan_members(u, <<>>)
    ELSE IF Head(t) = "[" THEN
        LET u == lstrip(Tail(t)) IN
        IF u # <<>> /\ Head(u) = "]" THEN Decoded(PyList(<<>>), Tail(u))
        ELSE scan_elements(u, <<>>)
    ELSE DecodeError

\* after "{" or ",": "key" : value, then "," or "}"
scan_members(t0, acc) ==
    LET t == lstrip(t0) IN
    IF t = <<>> \/ Head(t) \notin DOMAIN StrLit THEN DecodeError
    ELSE
        LET c == lstrip(Tail(t)) IN
        IF c = <<>> \/ Head(c) # ":" THEN DecodeError
        ELSE
            LET v == scan_value(Tail(c)) IN
            IF ~v.ok THEN DecodeError
            ELSE
                LET more == Append(acc, Member(StrLit[Head(t)], v.val))
                    r == lstrip(v.rest)
                IN  IF r = <<>> THEN DecodeError
                    ELSE IF Head(r) = "}" THEN Decoded(PyDict(more), Tail(r))
                    ELSE IF Head(r) = "," THEN scan_members(Tail(r), more)
                    ELSE DecodeError

\* after "[" or ",": value, then "," or "]"
scan_elements(t0, acc) ==
    LET v == scan_value(t0) IN
    IF ~v.ok THEN DecodeError
    ELSE
        LET more == Append(acc, Member("", v.val))
            r == lstrip(v.rest)
        IN  IF r = <<>> THEN DecodeError
            ELSE IF Head(r) = "]" THEN Decoded(PyList(more), Tail(r))
            ELSE IF Head(r) = "," THEN scan_elements(Tail(r), more)
            ELSE DecodeError

\* json.loads(t): the whole text is one value, blanks around it allowed.
json_loads(t) ==
    LET v == scan_value(t) IN
    IF v.ok /\ lstrip(v.rest) = <<>> THEN v ELSE DecodeError

\* data.get(key, default) of a dict; the last member of a repeated key wins.
dict_get(data, key, default) ==
    LET hits == {i \in 1..Len(data.items) : data.items[i].key = key} IN
    IF hits = {} THEN default
    ELSE data.items[CHOOSE i \in hits : \A j \in hits : j <= i].val

-----------------------------------------------------------------------------
(* LLMService *)

Feedback(a, b, c) ==
    [ai_response |-> a, ai_summary |-> b, ai_recommended_action |-> c]

\* _fallback with the first comparison written rating < 2
_fallback_strict(rating) ==
    IF rating < 2 THEN
        Feedback(
            Str("Thank you for your feedback. We take all concerns seriously and will investigate this matter promptly."),
            Str("Low rating received - requires immediate attention"),
            Str("Escalate to customer success team within 4 hours"))
    ELSE IF rating = 3 THEN
        Feedback(
            Str("Thank you for your feedback. We're always working to improve our service."),
            Str("Neutral feedback - monitor for patterns"),
            Str("Add to weekly review queue"))
    ELSE
        Feedback(
            Str("Thank you for your positive feedback! We're delighted to hear about your experience."),
            Str("Positive customer feedback"),
            Str("No immediate action required"))

_fallback(rating) ==
    IF rating <= 2 THEN
        Feedback(
            Str("Thank you for your feedback. We take all concerns seriously and will investigate this matter promptly."),
            Str("Low rating received - requires immediate attention"),
            Str("Escalate to customer success team within 4 hours"))
    ELSE IF rating = 3 THEN
        Feedback(
            Str("Thank you for your feedback. We're always working to improve our service."),
            Str("Neutral feedback - monitor for patterns"),
            Str("Add to weekly review queue"))
    ELSE
        Feedback(
            Str("Thank you for your positive feedback! We're delighted to hear about your experience."),
            Str("Positive customer feedback"),
            Str("No immediate action required"))

\* unfence with the slice written lines[1:]: the closing fence stays
unfence_keeps_last_line(text) ==
    LET cleaned == strip(text) IN
    IF startswith(cleaned, FENCE)
    THEN LET lines == split(cleaned, NL) IN
         IF Len(lines) > 2
         THEN join(SubSeq(lines, 2, Len(lines)), NL)
         ELSE cleaned
    ELSE cleaned

\* The text json.loads is given: the stripped text, without the first and
\* the last line when it starts with a fence and has more than two lines.
unfence(text) ==
    LET cleaned == strip(text) IN
    IF startswith(cleaned, FENCE)
    THEN LET lines == split(cleaned, NL) IN
         IF Len(lines) > 2
         THEN join(SubSeq(lines, 2, Len(lines) - 1), NL)
         ELSE cleaned
    ELSE cleaned

\* A decode error, and the AttributeError of .get on a value that is no
\* dict, are caught by `except Exception` and give the fallback.
_parse(text, rating) ==
    LET data == json_loads(unfence(text)) IN
    IF ~data.ok THEN _fallback(rating)
    ELSE IF data.val.k # "dict" THEN _fallback(rating)
    ELSE Feedback(dict_get(data.val, "user_response", Str("")),
                  dict_get(data.val, "admin_summary", Str("")),
                  dict_get(data.val, "recommended_action", Str("")))

\* What the remote call can do: answer with a model text, time out, answer
\* with a non-success status (raise_for_status), fail in transport, or answer
\* with a body that has no candidates[0].content.parts[0].text.
FailureKinds == {"timeout", "status", "transport", "envelope"}

Answer(text) == [kind |-> "ok", text |-> text]

Failure(kind) == [kind |-> kind, text |-> <<>>]

Raised == [raised |-> TRUE, value |-> Feedback(PyNone, PyNone, PyNone)]

Returned(v) == [raised |-> FALSE, value |-> v]

_call_google(rating, review_text, outcome) ==
    IF outcome.kind = "ok"
    THEN Returned(_parse(outcome.text, rating))
    ELSE Raised

\* generate_feedback without its `except Exception`: nothing usable comes
\* back from a call that raised
generate_feedback_uncaught(provider, rating, review_text, outcome) ==
    IF provider = "google"
    THEN _call_google(rating, review_text, outcome).value
    ELSE _fallback(rating)

generate_feedback(provider, rating, review_text, outcome) ==
    IF provider = "google"
    THEN LET r == _call_google(rating, review_text, outcome) IN
         IF r.raised THEN _fallback(rating) ELSE r.value
    ELSE _fallback(rating)

-----------------------------------------------------------------------------
(* The model texts given to the parser.  A document is a JSON              *)
(* object given by its members, each with the tokens of its value and the  *)
(* Python value those tokens stand for; a raw text is given as it is.      *)

KeyToks == <<"\"user_response\"", "\"admin_summary\"", "\"recommended_action\"">>

PlainVals ==
    <<[toks |-> <<"\"Thanks!\"">>, val |-> Str("Thanks!")],
      [toks |-> <<"\"Happy customer\"">>, val |-> Str("Happy customer")],
      [toks |-> <<"\"Call back\"">>, val |-> Str("Call back")]>>

OddVals ==
    {[toks |-> <<"\"\"">>, val |-> Str("")],
     [toks |-> <<"null">>, val |-> PyNone],
     [toks |-> <<"7">>, val |-> Num("7")],
     [toks |-> <<"[", "]">>, val |-> PyList(<<>>)]}

\* The key orders: every arrangement of every subset of the three keys.
KeyOrders ==
    {o \in UNION {[1..n -> 1..3] : n \in 0..3} :
        \A i, j \in DOMAIN o : i # j => o[i] # o[j]}

Entry(key, v) == [key |-> key, toks |-> v.toks, val |-> v.val]

\* The documents of one key order: every value plain, or one of them odd.
DocsOf(o) ==
    {[i \in DOMAIN o |-> Entry(o[i], PlainVals[o[i]])]}
    \cup {[i \in DOMAIN o |->
              IF i = at THEN Entry(o[i], odd) ELSE Entry(o[i], PlainVals[o[i]])] :
            at \in DOMAIN o, odd \in OddVals}

Docs == UNION {DocsOf(o) : o \in KeyOrders}

Layouts == {"compact", "pretty"}

Wraps == {"bare", "padded", "fence", "fence_json"}

RECURSIVE RenderMembers(_, _)
RenderMembers(doc, layout) ==
    IF doc = <<>> THEN <<>>
    ELSE LET e == Head(doc)
             one == IF layout = "compact"
                    THEN <<KeyToks[e.key], ":">> \o e.toks
                    ELSE <<NL, SP, KeyToks[e.key], ":", SP>> \o e.toks
         IN  one \o (IF Len(doc) > 1 THEN <<",">> ELSE <<>>)
                 \o RenderMembers(Tail(doc), layout)

RenderDoc(doc, layout) ==
    <<"{">> \o RenderMembers(doc, layout)
            \o (IF layout = "pretty" /\ doc # <<>> THEN <<NL>> ELSE <<>>)
            \o <<"}">>

Wrapped(t, wrap) ==
    CASE wrap = "bare" -> t
      [] wrap = "padded" -> <<NL, SP>> \o t \o <<SP, NL>>
      [] wrap = "fence" -> <<FENCE, NL>> \o t \o <<NL, FENCE>>
      [] wrap = "fence_json" -> <<SP, FENCE, "json", NL>> \o t \o <<NL, FENCE, NL>>

\* Raw texts, each with what it is: "undecodable" or "not_object".
RawTexts ==
    {[text |-> <<>>, is |-> "undecodable"],
     [text |-> <<"Sure", SP, "thing">>, is |-> "undecodable"],
     [text |-> <<"{", "\"user_response\"", ":">>, is |-> "undecodable"],
     [text |-> <<"{", "\"user_response\"", ":", "\"Thanks!\"", ",", "}">>,
      is |-> "undecodable"],
     [text |-> <<"{", "}", NL, "Sure">>, is |-> "undecodable"],
     [text |-> <<FENCE>>, is |-> "undecodable"],
     [text |-> <<FENCE, NL, FENCE>>, is |-> "undecodable"],
     [text |-> <<FENCE, NL, "Sure", NL, FENCE>>, is |-> "undecodable"],
     [text |-> <<"[", "\"Thanks!\"", ",", "null", "]">>, is |-> "not_object"],
     [text |-> <<FENCE, NL, "[", "]", NL, FENCE>>, is |-> "not_object"],
     [text |-> <<"\"Thanks!\"">>, is |-> "not_object"],
     [text |-> <<"null">>, is |-> "not_object"],
     [text |-> <<SP, "7", NL>>, is |-> "not_object"]}

DocSample(doc, layout, wrap) ==
    [is |-> "object", doc |-> doc, wrap |-> wrap,
     text |-> Wrapped(RenderDoc(doc, layout), wrap)]

RawSample(raw) ==
    [is |-> raw.is, doc |-> <<>>, wrap |-> "bare", text |-> raw.text]

Samples ==
    {DocSample(d, l, w) : d \in Docs, l \in Layouts, w \in Wraps}
    \cup {RawSample(r) : r \in RawTexts}

NoSample == [is |-> None, doc |-> <<>>, wrap |-> "bare", text |-> <<>>]

-----------------------------------------------------------------------------
(* Config and the start of the process *)

MAX_REVIEW_LENGTH == 5000

\* os.getenv(name, default)
getenv(e, name, default) == IF e[name] = None THEN default ELSE e[name]

\* Config.LLM_PROVIDER read without a default
Config_LLM_PROVIDER_no_default(e) == getenv(e, "LLM_PROVIDER", None)

Config_LLM_PROVIDER(e) == getenv(e, "LLM_PROVIDER", "google")

\* The key handed to LLMService at the bottom of the module initialisation.
api_key(e) ==
    IF Config_LLM_PROVIDER(e) = "google"
    THEN getenv(e, "GOOGLE_API_KEY", None)
    ELSE getenv(e, "ANTHROPIC_API_KEY", None)

\* LLMService.__init__ raises ValueError without a key: the import fails and
\* the process serves nothing.
startup(e) == IF api_key(e) \in {None, ""} THEN "config_error" ELSE "running"

Environments ==
    {[LLM_PROVIDER |-> None, GOOGLE_API_KEY |-> "g-key", ANTHROPIC_API_KEY |-> None],
     [LLM_PROVIDER |-> "google", GOOGLE_API_KEY |-> "g-key", ANTHROPIC_API_KEY |-> "a-key"],
     [LLM_PROVIDER |-> "anthropic", GOOGLE_API_KEY |-> None, ANTHROPIC_API_KEY |-> "a-key"],
     [LLM_PROVIDER |-> None, GOOGLE_API_KEY |-> None, ANTHROPIC_API_KEY |-> "a-key"],
     [LLM_PROVIDER |-> "google", GOOGLE_API_KEY |-> "", ANTHROPIC_API_KEY |-> "a-key"],
     [LLM_PROVIDER |-> "anthropic", GOOGLE_API_KEY |-> "g-key", ANTHROPIC_API_KEY |-> None]}

-----------------------------------------------------------------------------
(* Review texts: sequences of runs, every run of one or more characters. *)

Run(ch, n) == [ch |-> ch, n |-> n]

Blank == {" "}

RECURSIVE review_lstrip(_)
review_lstrip(t) ==
    IF t # <<>> /\ Head(t).ch \in Blank THEN review_lstrip(Tail(t)) ELSE t

RECURSIVE review_rstrip(_)
review_rstrip(t) ==
    IF t # <<>> /\ t[Len(t)].ch \in Blank
    THEN review_rstrip(SubSeq(t, 1, Len(t) - 1))
    ELSE t

\* v.strip()
review_strip(t) == review_rstrip(review_lstrip(t))

\* t[:n]
RECURSIVE review_prefix(_, _)
review_prefix(t, n) ==
    IF t = <<>> \/ n <= 0 THEN <<>>
    ELSE IF Head(t).n <= n
         THEN <<Head(t)>> \o review_prefix(Tail(t), n - Head(t).n)
         ELSE <<Run(Head(t).ch, n)>>

\* ReviewSubmission with the rating field declared ge=0
ReviewSubmission_ge0(rating, review_text) ==
    [errors |-> (IF rating >= 0 /\ rating <= 5 THEN {} ELSE {"rating"})
                \cup (IF review_strip(review_text) = <<>> THEN {"review_text"} ELSE {}),
     rating |-> rating,
     review_text |-> review_strip(review_text)]

\* ReviewSubmission: the fields that fail validation, and the validated
\* values (review_text is replaced by its stripped form).
ReviewSubmission(rating, review_text) ==
    [errors |-> (IF rating >= 1 /\ rating <= 5 THEN {} ELSE {"rating"})
                \cup (IF review_strip(review_text) = <<>> THEN {"review_text"} ELSE {}),
     rating |-> rating,
     review_text |-> review_strip(review_text)]

\* An Optional[int] is <<>> for None and <<n>> for the integer n.
\* Query(None, ge=1, le=5) of /get-reviews: the fields that fail validation.
RatingQuery(rating) ==
    IF rating = <<>> THEN {}
    ELSE IF rating[1] >= 1 /\ rating[1] <= 5 THEN {} ELSE {"rating"}

-----------------------------------------------------------------------------
(* The clock and created_at.  A moment is [sec, usec]; isoformat() writes  *)
(* the seconds with two digits and, only when usec is not 0, a point and   *)
(* six digits.  Texts are sequences of character codes, compared as SQLite *)
(* compares TEXT: code by code, a proper prefix first.                     *)

Moment(tick) ==
    [sec |-> 9 + ((tick + 1) \div 2),
     usec |-> IF tick % 2 = 0 THEN 999999 ELSE 0]

Digit(d) == 48 + d

\* "." comes two codes before "0"
Point == Digit(0) - 2

RECURSIVE Digits(_, _)
Digits(n, width) ==
    IF width = 0 THEN <<>>
    ELSE Append(Digits(n \div 10, width - 1), Digit(n % 10))

isoformat(m) ==
    Digits(m.sec, 2) \o (IF m.usec = 0 THEN <<>> ELSE <<Point>> \o Digits(m.usec, 6))

RECURSIVE text_less(_, _)
text_less(a, b) ==
    IF b = <<>> THEN FALSE
    ELSE IF a = <<>> THEN TRUE
    ELSE IF Head(a) # Head(b) THEN Head(a) < Head(b)
    ELSE text_less(Tail(a), Tail(b))

-----------------------------------------------------------------------------
(* DatabaseManager *)

\* What sqlite3 does with a parameter bound to a TEXT NOT NULL column: a str
\* is stored, an int is stored as its text, None breaks NOT NULL
\* (IntegrityError), a list or a dict cannot be bound at all.
Storable(v) == v.k \in {"str", "int"}

Stored(v) == Str(v.s)

Row(id, rating, review_text, fb, created_at) ==
    [id |-> id, rating |-> rating, review_text |-> review_text,
     ai_response |-> Stored(fb.ai_response),
     ai_summary |-> Stored(fb.ai_summary),
     ai_recommended_action |-> Stored(fb.ai_recommended_action),
     created_at |-> created_at]

\* insert_review as INSERT OR REPLACE under an id made once at import: every
\* insert after the first replaces the row
insert_review_one_id(table, id, rating, review_text, fb, created_at) ==
    IF Storable(fb.ai_response) /\ Storable(fb.ai_summary)
       /\ Storable(fb.ai_recommended_action)
    THEN [raised |-> FALSE,
          table |-> IF table = <<>>
                    THEN <<Row(1, rating, review_text, fb, created_at)>>
                    ELSE [table EXCEPT ![1] = Row(1, rating, review_text, fb, created_at)]]
    ELSE [raised |-> TRUE, table |-> table]

\* insert_review: the table after the statement, or raised and the table as
\* it was.  id is the fresh uuid4, created_at the clock reading.
insert_review(table, id, rating, review_text, fb, created_at) ==
    IF Storable(fb.ai_response) /\ Storable(fb.ai_summary)
       /\ Storable(fb.ai_recommended_action)
    THEN [raised |-> FALSE,
          table |-> Append(table, Row(id, rating, review_text, fb, created_at))]
    ELSE [raised |-> TRUE, table |-> table]

Selected(r) ==
    [rating |-> r.rating, review_text |-> r.review_text,
     ai_summary |-> r.ai_summary,
     ai_recommended_action |-> r.ai_recommended_action,
     created_at |-> r.created_at]

\* WHERE rating = ?
RECURSIVE where_rating(_, _)
where_rating(rows, rating) ==
    IF rows = <<>> THEN <<>>
    ELSE (IF Head(rows).rating = rating THEN <<Head(rows)>> ELSE <<>>)
         \o where_rating(Tail(rows), rating)

\* ORDER BY created_at DESC, by insertion; rows of one created_at stay in
\* table order (SQL leaves their order open).
RECURSIVE insert_desc(_, _)
insert_desc(sorted, r) ==
    IF sorted = <<>> THEN <<r>>
    ELSE IF text_less(Head(sorted).created_at, r.created_at)
         THEN <<r>> \o sorted
         ELSE <<Head(sorted)>> \o insert_desc(Tail(sorted), r)

RECURSIVE order_by_created_at_desc(_)
order_by_created_at_desc(rows) ==
    IF rows = <<>> THEN <<>>
    ELSE insert_desc(order_by_created_at_desc(SubSeq(rows, 1, Len(rows) - 1)),
                     rows[Len(rows)])

\* get_all_reviews with ORDER BY created_at, oldest first
get_all_reviews_asc(table, rating_filter) ==
    LET rows == IF rating_filter # <<>> /\ rating_filter[1] # 0
                THEN where_rating(table, rating_filter[1])
                ELSE table
        ordered == order_by_created_at_desc(rows)
    IN  [i \in 1..Len(ordered) |-> Selected(ordered[Len(ordered) + 1 - i])]

\* `if rating_filter:` is false for None (and would be for 0).
get_all_reviews(table, rating_filter) ==
    LET rows == IF rating_filter # <<>> /\ rating_filter[1] # 0
                THEN where_rating(table, rating_filter[1])
                ELSE table
        ordered == order_by_created_at_desc(rows)
    IN  [i \in 1..Len(ordered) |-> Selected(ordered[i])]

-----------------------------------------------------------------------------
(* Bounds and inputs of the system *)

MaxSubmissions == 2

MaxTick == 2

SubmittedRatings == 0..6

SubmittedTexts ==
    {<<>>,
     <<Run(" ", 3)>>,
     <<Run(" ", 1), Run("a", 2), Run(" ", 2)>>,
     <<Run("b", MAX_REVIEW_LENGTH + 1)>>}

QueriedRatings == {<<>>} \cup {<<r>> : r \in 0..6}

ScenarioB ==
    <<[key |-> 1, toks |-> <<"\"Thanks!\"">>, val |-> Str("Thanks!")],
      [key |-> 2, toks |-> <<"\"Happy customer\"">>, val |-> Str("Happy customer")],
      [key |-> 3, toks |-> <<"\"Call back\"">>, val |-> Str("Call back")]>>

WithValue(v) ==
    <<[key |-> 1, toks |-> v.toks, val |-> v.val],
      [key |-> 2, toks |-> <<"\"Happy customer\"">>, val |-> Str("Happy customer")],
      [key |-> 3, toks |-> <<"\"Call back\"">>, val |-> Str("Call back")]>>

\* The model texts the system is run with.
SystemSamples ==
    {DocSample(ScenarioB, "compact", "fence_json"),
     DocSample(<<>>, "compact", "bare"),
     DocSample(WithValue([toks |-> <<"null">>, val |-> PyNone]), "compact", "bare"),
     DocSample(WithValue([toks |-> <<"7">>, val |-> Num("7")]), "compact", "bare")}

SystemOutcomes ==
    {Failure(k) : k \in FailureKinds} \cup {Answer(sm.text) : sm \in SystemSamples}

NoCall == [kind |-> "no_call", text |-> <<>>]

NoRequest == [status |-> 0, errors |-> {}]

NoQuery == [status |-> 0, rating |-> <<>>, reviews |-> <<>>]

\* The id of the row a handler inserted: <<>> when it inserted none.
NoRow == <<>>

-----------------------------------------------------------------------------
(* The handlers *)

Accepted == Cardinality(inflight) + Cardinality(finished)

\* The rest of submit_review once generate_feedback has returned fb: the
\* insert with the clock reading created, then the response.  An exception of
\* the insert becomes the 500 of the handler; a body whose ai_response is no
\* str fails the response model after the insert, which is a 500 as well.
Respond(h, outcome, calls, fb, created) ==
    LET id == Len(reviews) + 1
        ins == insert_review(reviews, id, h.rating, h.review_text, fb,
                             isoformat(Moment(created)))
        status == IF ins.raised THEN 500
                  ELSE IF fb.ai_response.k # "str" THEN 500
                  ELSE 200
    IN  /\ reviews' = ins.table
        /\ now' = created
        /\ finished' = finished \cup
              {[req |-> h.req, rating |-> h.rating, review_text |-> h.review_text,
                outcome |-> IF outcome.kind \in FailureKinds THEN "failed"
                            ELSE outcome.kind,
                calls |-> calls, feedback |-> fb,
                status |-> status,
                ai_response |-> IF status = 200 THEN fb.ai_response ELSE PyNone,
                row |-> IF ins.raised THEN NoRow ELSE <<id>>]}
        /\ lastQuery' = IF ins.raised THEN lastQuery ELSE NoQuery
        /\ rejected' = NoRequest

\* POST /submit-review refused by the request model: 422, the handler does
\* not run.
SubmitRejected(rating, review_text) ==
    /\ app = "running"
    /\ ReviewSubmission(rating, review_text).errors # {}
    /\ rejected' = [status |-> 422,
                    errors |-> ReviewSubmission(rating, review_text).errors]
    /\ UNCHANGED <<env, app, reviews, inflight, finished, outbound, now, lastQuery>>
    /\ UNCHANGED genVars

\* POST /submit-review with the google provider: the handler truncates the
\* text, sends the prompt and is suspended until the call ends.
SubmitAndCall(rating, review_text) ==
    LET r == ReviewSubmission(rating, review_text) IN
    /\ app = "running"
    /\ Accepted < MaxSubmissions
    /\ r.errors = {}
    /\ Config_LLM_PROVIDER(env) = "google"
    /\ inflight' = inflight \cup
          {[req |-> Accepted + 1, rating |-> r.rating,
            review_text |-> review_prefix(r.review_text, MAX_REVIEW_LENGTH)]}
    /\ outbound' = outbound + 1
    /\ rejected' = NoRequest
    /\ UNCHANGED <<env, app, reviews, finished, now, lastQuery>>
    /\ UNCHANGED genVars

\* The call of a suspended handler ends with outcome; the handler runs on to
\* its response.
CallEnds(h, outcome, created) ==
    /\ h \in inflight
    /\ inflight' = inflight \ {h}
    /\ Respond(h, outcome, 1,
               generate_feedback(Config_LLM_PROVIDER(env), h.rating,
                                 h.review_text, outcome),
               created)
    /\ UNCHANGED <<env, app, outbound>>
    /\ UNCHANGED genVars

\* POST /submit-review with any other provider: no call, the handler runs to
\* its response at once.
SubmitNoCall(rating, review_text, created) ==
    LET r == ReviewSubmission(rating, review_text)
        h == [req |-> Accepted + 1, rating |-> r.rating,
              review_text |-> review_prefix(r.review_text, MAX_REVIEW_LENGTH)]
    IN  /\ app = "running"
        /\ Accepted < MaxSubmissions
        /\ r.errors = {}
        /\ Config_LLM_PROVIDER(env) # "google"
        /\ Respond(h, NoCall, 0,
                   generate_feedback(Config_LLM_PROVIDER(env), h.rating,
                                     h.review_text, NoCall),
                   created)
        /\ UNCHANGED <<env, app, inflight, outbound>>
        /\ UNCHANGED genVars

\* GET /get-reviews
GetReviews(rating) ==
    /\ app = "running"
    /\ lastQuery' =
          IF RatingQuery(rating) # {}
          THEN [status |-> 422, rating |-> rating, reviews |-> <<>>]
          ELSE [status |-> 200, rating |-> rating,
                reviews |-> get_all_reviews(reviews, rating)]
    /\ rejected' = NoRequest
    /\ UNCHANGED <<env, app, reviews, inflight, finished, outbound, now>>
    /\ UNCHANGED genVars

\* The clock readings a handler can get: the clock never runs backwards.
Readings == {t \in now..(now + 1) : t <= MaxTick}

\* A clock that has moved on at every reading (until the bound).
Later == {t \in Readings : t = now + 1 \/ now = MaxTick}

GenIdle == [provider |-> None, rating |-> 0, outcome |-> NoCall, sample |-> NoSample]

NoResult == [done |-> FALSE, feedback |-> Feedback(PyNone, PyNone, PyNone)]

Init ==
    /\ env \in Environments
    /\ app = startup(env)
    /\ reviews = <<>>
    /\ inflight = {}
    /\ finished = {}
    /\ rejected = NoRequest
    /\ outbound = 0
    /\ now = 0
    /\ lastQuery = NoQuery
    /\ genIn = GenIdle
    /\ genOut = NoResult

Next ==
    \/ \E rating \in SubmittedRatings, text \in SubmittedTexts :
          SubmitRejected(rating, text)
    \/ \E rating \in SubmittedRatings, text \in SubmittedTexts :
          SubmitAndCall(rating, text)
    \/ \E h \in inflight, outcome \in SystemOutcomes, created \in Later :
          CallEnds(h, outcome, created)
    \/ \E rating \in SubmittedRatings, text \in SubmittedTexts, created \in Later :
          SubmitNoCall(rating, text, created)

Spec == Init /\ [][Next]_vars

\* The system as /get-reviews sees it: reviews of every rating stored at
\* equal and at different clock readings, and queries with every filter.
StoredText == <<Run("a", 2)>>

StoredOutcomes == {Failure("timeout")}

NextQuery ==
    \/ \E rating \in 1..5 : SubmitAndCall(rating, StoredText)
    \/ \E h \in inflight, outcome \in StoredOutcomes, created \in Readings :
          CallEnds(h, outcome, created)
    \/ \E rating \in 1..5, created \in Readings :
          SubmitNoCall(rating, StoredText, created)
    \/ \E rating \in QueriedRatings : GetReviews(rating)

SpecQuery == Init /\ [][NextQuery]_vars

\* generate_feedback as a function: every provider, rating and outcome of
\* the call, the model texts drawn from Samples.
GenInputs ==
    {[provider |-> "google", rating |-> r, outcome |-> Answer(sm.text), sample |-> sm] :
        r \in 1..5, sm \in Samples}
    \cup {[provider |-> "google", rating |-> r, outcome |-> Failure(k), sample |-> NoSample] :
        r \in 1..5, k \in FailureKinds}
    \cup {[provider |-> p, rating |-> r, outcome |-> NoCall, sample |-> NoSample] :
        r \in 1..5, p \in {"anthropic", ""}}

InitGen ==
    /\ env = [LLM_PROVIDER |-> None, GOOGLE_API_KEY |-> "g-key", ANTHROPIC_API_KEY |-> None]
    /\ app = startup(env)
    /\ reviews = <<>>
    /\ inflight = {}
    /\ finished = {}
    /\ rejected = NoRequest
    /\ outbound = 0
    /\ now = 0
    /\ lastQuery = NoQuery
    /\ genIn \in GenInputs
    /\ genOut = NoResult

Generate ==
    /\ ~genOut.done
    /\ genOut' = [done |-> TRUE,
                  feedback |-> generate_feedback(genIn.provider, genIn.rating,
                                                 StoredText, genIn.outcome)]
    /\ UNCHANGED genIn
    /\ UNCHANGED sysVars

NextGen == Generate

SpecGen == InitGen /\ [][NextGen]_vars

-----------------------------------------------------------------------------
(* Properties of generate_feedback, under SpecGen *)

NonEmptyText(v) == v.k = "str" /\ v.s # ""

Populated(fb) ==
    /\ NonEmptyText(fb.ai_response)
    /\ NonEmptyText(fb.ai_summary)
    /\ NonEmptyText(fb.ai_recommended_action)

HasKey(doc, key) == \E i \in DOMAIN doc : doc[i].key = key

HasAllKeys(doc) == \A key \in 1..3 : HasKey(doc, key)

\* The value a document gives a key (documents repeat no key).
ValueOf(doc, key) == doc[CHOOSE i \in DOMAIN doc : doc[i].key = key].val

\* What the parser contract calls unusable: text that does not decode, a
\* decoded value that is no object, an object without one of the three keys.
Unusable(sample) ==
    \/ sample.is \in {"undecodable", "not_object"}
    \/ sample.is = "object" /\ ~HasAllKeys(sample.doc)

Answered == genOut.done /\ genIn.outcome.kind = "ok"

\* C1: whatever the rating, the text and the outcome of the remote call, the
\* three fields generate_feedback returns are non-empty text.
C1_NeverBlank == genOut.done => Populated(genOut.feedback)

\* C2: a model text that does not decode, decodes to a non-object, or lacks
\* one of the three keys gives exactly the fallback triple of the rating.
C2_UnusableGivesFallback ==
    (Answered /\ Unusable(genIn.sample))
        => genOut.feedback = _fallback(genIn.rating)

\* C3: a well-formed object with the three keys, in any key order, bare or
\* inside a fenced block, is parsed to exactly its three values; so the
\* fenced and the unfenced form of one object give the same result.
C3_RoundTrip ==
    (Answered /\ genIn.sample.is = "object" /\ HasAllKeys(genIn.sample.doc))
        => genOut.feedback = Feedback(ValueOf(genIn.sample.doc, 1),
                                      ValueOf(genIn.sample.doc, 2),
                                      ValueOf(genIn.sample.doc, 3))

C3_Witness ==
    /\ Answered
    /\ genIn.sample.wrap = "fence_json"
    /\ Len(genIn.sample.doc) = 3
    /\ genIn.sample.doc[1].key = 3
    /\ genOut.feedback =
          Feedback(Str("Thanks!"), Str("Happy customer"), Str("Call back"))

Urgent(fb) ==
    /\ NonEmptyText(fb.ai_response)
    /\ fb.ai_summary = Str("Low rating received - requires immediate attention")
    /\ fb.ai_recommended_action = Str("Escalate to customer success team within 4 hours")

Monitor(fb) ==
    /\ NonEmptyText(fb.ai_response)
    /\ fb.ai_summary = Str("Neutral feedback - monitor for patterns")
    /\ fb.ai_recommended_action = Str("Add to weekly review queue")

NoAction(fb) ==
    /\ NonEmptyText(fb.ai_response)
    /\ fb.ai_summary = Str("Positive customer feedback")
    /\ fb.ai_recommended_action = Str("No immediate action required")

Tier(rating, fb) ==
    CASE rating \in {1, 2} -> Urgent(fb)
      [] rating = 3 -> Monitor(fb)
      [] rating \in {4, 5} -> NoAction(fb)

\* C5: the classifier's result depends on the rating alone: the urgent triple
\* for 1 and 2, the monitor triple for 3, the no-action triple for 4 and 5,
\* whatever the provider and the failure that led to it; no field is empty.
C5_FallbackTiers ==
    (genOut.done /\ genIn.outcome.kind # "ok")
        => /\ Tier(genIn.rating, genOut.feedback)
           /\ Populated(genOut.feedback)

C5_Witness ==
    /\ genOut.done
    /\ genIn.rating = 2
    /\ genIn.outcome.kind = "no_call"
    /\ Urgent(genOut.feedback)

-----------------------------------------------------------------------------
(* Properties of the submission handler, under Spec *)

RowOf(f) == reviews[f.row[1]]

\* The row f inserted is in the table once, with f's rating, f's text and
\* the feedback generated for f.
OwnRow(f) ==
    /\ f.row # NoRow
    /\ f.row[1] \in 1..Len(reviews)
    /\ Cardinality({i \in 1..Len(reviews) : reviews[i].id = f.row[1]}) = 1
    /\ RowOf(f).id = f.row[1]
    /\ RowOf(f).rating = f.rating
    /\ RowOf(f).review_text = f.review_text
    /\ RowOf(f).ai_response = Stored(f.feedback.ai_response)
    /\ RowOf(f).ai_summary = Stored(f.feedback.ai_summary)
    /\ RowOf(f).ai_recommended_action = Stored(f.feedback.ai_recommended_action)

\* C4: whenever the remote call fails, generate_feedback raises nothing and
\* returns the fallback triple of the submitted rating; the review is stored
\* with it and answered with success, for rating 1 with the escalation.
C4_FailedCallFallsBack ==
    \A f \in finished :
        f.outcome = "failed" =>
            /\ f.feedback = _fallback(f.rating)
            /\ f.status = 200
            /\ f.ai_response = _fallback(f.rating).ai_response
            /\ OwnRow(f)
            /\ f.rating = 1 =>
                 RowOf(f).ai_recommended_action =
                     Str("Escalate to customer success team within 4 hours")

C4_Witness ==
    \E f \in finished :
        /\ f.outcome = "failed"
        /\ f.rating = 1
        /\ f.status = 200
        /\ OwnRow(f)

Trimmed(t) == t # <<>> /\ Head(t).ch \notin Blank /\ t[Len(t)].ch \notin Blank

\* C6: a submission with a rating outside 1..5 or a text that is blank once
\* trimmed is refused with a client error and leaves the table, the calls
\* made and the handlers as they were; nothing with such a rating or text is
\* ever sent to the model or stored.
C6_RejectedBeforeEffects ==
    [][/\ rejected' # NoRequest =>
            /\ rejected'.status = 422
            /\ UNCHANGED <<reviews, outbound, inflight, finished>>
       /\ \A h \in inflight' : h.rating \in 1..5 /\ Trimmed(h.review_text)
       /\ \A f \in finished' : f.rating \in 1..5 /\ Trimmed(f.review_text)
       /\ \A i \in 1..Len(reviews') :
             reviews'[i].rating \in 1..5 /\ Trimmed(reviews'[i].review_text)]_vars

C6_Witness ==
    /\ rejected.status = 422
    /\ "rating" \in rejected.errors
    /\ Len(reviews) = 1
    /\ outbound = 1

C8_ModelNeverVisible ==
    \A f \in finished : f.status = 200 /\ f.row # NoRow

AppendOnly ==
    /\ Len(reviews') \in {Len(reviews), Len(reviews) + 1}
    /\ SubSeq(reviews', 1, Len(reviews)) = reviews

\* C10: under any interleaving of the suspended handlers, a submission
\* answered with success has added exactly one review, made of its own
\* rating, its own text and the feedback generated for it; a handler that
\* resumes answers for its own request; stored reviews never change.
C10_OneReviewPerSuccess ==
    [][/\ AppendOnly
       /\ \A f \in finished' : f.status = 200 => OwnRow(f)'
       /\ \A f, g \in finished' : (f # g /\ f.row # NoRow) => f.row # g.row
       /\ Len(reviews') = Cardinality({f \in finished' : f.row # NoRow})
       /\ \A h \in inflight \ inflight' :
             \E f \in finished' \ finished :
                 /\ f.req = h.req
                 /\ f.rating = h.rating
                 /\ f.review_text = h.review_text]_vars

\* Two handlers that overlapped: the one submitted later answered first.
C10_Witness ==
    \E f, g \in finished :
        /\ f.req < g.req
        /\ f.status = 200 /\ g.status = 200
        /\ g.row = <<1>> /\ f.row = <<2>>
        /\ f.rating # g.rating
        /\ f.review_text # g.review_text
        /\ f.feedback # g.feedback

-----------------------------------------------------------------------------
(* Properties of /get-reviews, under SpecQuery *)

Matches(r, rating) == rating = <<>> \/ r.rating = rating[1]

Count(rows, x) == Cardinality({i \in 1..Len(rows) : rows[i] = x})

StoredMatching(rating, x) ==
    Cardinality({i \in 1..Len(reviews) :
                    Matches(reviews[i], rating) /\ Selected(reviews[i]) = x})

\* The clock reading a created_at text was written from.
TickOf(text) == CHOOSE t \in 0..MaxTick : isoformat(Moment(t)) = text

\* C9: /get-reviews with a rating 1..5 returns exactly the stored reviews of
\* that rating, and without one all stored reviews; the list is in
\* descending order of created_at, which is newest first.
C9_QueryResult ==
    (lastQuery.status = 200) =>
        LET q == lastQuery.reviews IN
        /\ \A i \in 1..Len(q) : StoredMatching(lastQuery.rating, q[i]) = Count(q, q[i])
        /\ \A i \in 1..Len(reviews) :
              Matches(reviews[i], lastQuery.rating) =>
                  Count(q, Selected(reviews[i]))
                      = StoredMatching(lastQuery.rating, Selected(reviews[i]))
        /\ \A i, j \in 1..Len(q) :
              i < j => /\ ~text_less(q[i].created_at, q[j].created_at)
                       /\ TickOf(q[i].created_at) >= TickOf(q[j].created_at)

\* Two reviews of rating 3 returned in the reverse of their table order.
C9_Witness ==
    /\ lastQuery.status = 200
    /\ lastQuery.rating = <<3>>
    /\ Len(reviews) = 2
    /\ Len(lastQuery.reviews) = 2
    /\ lastQuery.reviews[1] = Selected(reviews[2])
    /\ text_less(reviews[1].created_at, reviews[2].created_at)

=============================================================================
